---- MODULE Spec2Model ----
(***************************************************************************)
(* Linked list, AVL index and list sorts of the client-records program.    *)
(* Objects live in a heap `mem` of three arenas (list nodes, LinkedList    *)
(* objects, AVL nodes); an object reference is its index in the arena and  *)
(* Null is Python's None.                                                  *)
(***************************************************************************)
EXTENDS Integers, Sequences, FiniteSets, TLC

VARIABLES mem, ll, stk, q, pc, tree, stored, finds, hist, op, frames

vars == <<mem, ll, stk, q, pc, tree, stored, finds, hist, op, frames>>

\* ------------------------------------------------------------------ bounds
MaxLen == 4
MaxInserts == 6
MaxIndexed == 4
MaxFinds == 1
MaxNodes == 4
MaxQueried == 5
MaxLoaded == 4

\* ------------------------------------------------------- values and records
Null == 0

\* A raw key value, as a key function returns it: t is the Python type,
\* v the value (a number as a one-element sequence, a string as its
\* sequence of character codes).  t = "raise" marks a record on which the
\* key function raises.
IntKey(n) == [t |-> "int", v |-> <<n>>]
BoolKey(b) == [t |-> "bool", v |-> <<b>>]
DateKey(d) == [t |-> "date", v |-> <<d>>]
StrKey(s) == [t |-> "str", v |-> s]
NoneKey == [t |-> "none", v |-> <<>>]
RaiseKey == [t |-> "raise", v |-> <<>>]

Record(i, k) == [id |-> i, key |-> k]

KeyfnRaises(r) == r.key.t = "raise"
keyfn(r) == r.key

\* ------------------------------------------------- Python value comparison
IsNumber(a) == a.t \in {"int", "bool"}

RECURSIVE LexLt(_, _)
LexLt(s, u) ==
  IF u = <<>> THEN FALSE
  ELSE IF s = <<>> THEN TRUE
  ELSE IF Head(s) # Head(u) THEN Head(s) < Head(u)
  ELSE LexLt(Tail(s), Tail(u))

\* a == b : never raises; values of unrelated types are unequal
PyEq(a, b) ==
  \/ IsNumber(a) /\ IsNumber(b) /\ a.v = b.v
  \/ a.t = b.t /\ a.t \in {"date", "str", "none"} /\ a.v = b.v

\* a < b raises TypeError unless both are numbers, both dates or both strings
PyOrdRaises(a, b) ==
  ~ \/ IsNumber(a) /\ IsNumber(b)
    \/ a.t = "date" /\ b.t = "date"
    \/ a.t = "str" /\ b.t = "str"

PyLt(a, b) == IF a.t = "str" THEN LexLt(a.v, b.v) ELSE a.v[1] < b.v[1]

PyGt(a, b) == PyLt(b, a)

\* ------------------------------------------------------------ str.lower()
LowerChar(c) == IF c \in 65..90 THEN c + 32 ELSE c

Lower(s) == [i \in 1..Len(s) |-> LowerChar(s[i])]

\* ---------------------------------------------------------- _normalize_key
normalize_key(r) ==
  IF KeyfnRaises(r) THEN [c |-> 2, v |-> StrKey(<<>>)]
  ELSE LET v == keyfn(r) IN
    IF v.t = "none" THEN [c |-> 2, v |-> StrKey(<<>>)]
    ELSE IF v.t \in {"int", "bool"} THEN [c |-> 0, v |-> v]
    ELSE IF v.t = "date" THEN [c |-> 0, v |-> v]
    ELSE [c |-> 1, v |-> StrKey(Lower(v.v))]

\* Comparison of two normalized keys (Python tuples of length 2): the first
\* position where the tuples differ (by ==) decides, by < on that position.
NkEq(a, b) == a.c = b.c /\ PyEq(a.v, b.v)

NkOrdRaises(a, b) == a.c = b.c /\ ~PyEq(a.v, b.v) /\ PyOrdRaises(a.v, b.v)

NkLt(a, b) ==
  IF a.c # b.c THEN a.c < b.c
  ELSE IF PyEq(a.v, b.v) THEN FALSE
  ELSE PyLt(a.v, b.v)

NkLe(a, b) ==
  IF a.c # b.c THEN a.c < b.c
  ELSE IF PyEq(a.v, b.v) THEN TRUE
  ELSE PyLt(a.v, b.v)

\* ------------------------------------------------------- Node, LinkedList
EmptyMem == [nodes |-> <<>>, lists |-> <<>>, avl |-> <<>>]

Node(data) == [data |-> data, next |-> Null, prev |-> Null]

\* LinkedList(): the new object is at index Len(m.lists) + 1
NewList(m) ==
  [m EXCEPT !.lists = Append(@, [head |-> Null, tail |-> Null, size |-> 0])]

NewListId(m) == Len(m.lists) + 1

append(m, l, data) ==
  LET n == Len(m.nodes) + 1
      m1 == [m EXCEPT !.nodes = Append(@, Node(data))]
      L == m.lists[l]
  IN IF L.head = Null
       THEN [m1 EXCEPT !.lists[l].head = n, !.lists[l].tail = n,
                       !.lists[l].size = @ + 1]
       ELSE [m1 EXCEPT !.nodes[L.tail].next = n, !.nodes[n].prev = L.tail,
                       !.lists[l].tail = n, !.lists[l].size = @ + 1]

size(m, l) == m.lists[l].size

\* __iter__: the data of the nodes reached from cur by next links
RECURSIVE Iter(_, _)
Iter(m, cur) ==
  IF cur = Null THEN <<>>
  ELSE <<m.nodes[cur].data>> \o Iter(m, m.nodes[cur].next)

Items(m, l) == Iter(m, m.lists[l].head)

\* while cur is not None and cur is not stop: dst.append(cur.data)
RECURSIVE CopyLoop(_, _, _, _)
CopyLoop(m, cur, stop, dst) ==
  IF cur = Null \/ cur = stop THEN m
  ELSE CopyLoop(append(m, dst, m.nodes[cur].data), m.nodes[cur].next, stop, dst)

Ok(m, l) == [st |-> "ok", m |-> m, l |-> l]
Raise(e, m) == [st |-> e, m |-> m, l |-> Null]

\* LinkedList.clear
clear(m, l) ==
  [m EXCEPT !.lists[l] = [head |-> Null, tail |-> Null, size |-> 0]]

\* ------------------------------------------------------------ Stack, Queue
\* A Stack or Queue object is its _list, a LinkedList of the heap.  pop and
\* dequeue return the heap and the value v; Python's None is NoneKey.
\* a push that adds at the tail
push_atTail(m, l, item) == append(m, l, item)

push(m, l, item) ==
  LET n == Len(m.nodes) + 1
      m1 == [m EXCEPT !.nodes = Append(@, Node(item))]
      L == m.lists[l]
  IN IF L.head = Null
       THEN [m1 EXCEPT !.lists[l].head = n, !.lists[l].tail = n,
                       !.lists[l].size = @ + 1]
       ELSE [m1 EXCEPT !.nodes[n].next = L.head, !.nodes[L.head].prev = n,
                       !.lists[l].head = n, !.lists[l].size = @ + 1]

\* a pop that leaves tail on the node it removed
pop_keepTail(m, l) ==
  LET node == m.lists[l].head IN
  IF node = Null THEN [m |-> m, v |-> NoneKey]
  ELSE LET nxt == m.nodes[node].next
           m1 == [m EXCEPT !.lists[l].head = nxt]
           m2 == IF nxt # Null THEN [m1 EXCEPT !.nodes[nxt].prev = Null] ELSE m1
       IN [m |-> [m2 EXCEPT !.nodes[node].next = Null, !.lists[l].size = @ - 1],
           v |-> m.nodes[node].data]

pop(m, l) ==
  LET node == m.lists[l].head IN
  IF node = Null THEN [m |-> m, v |-> NoneKey]
  ELSE LET nxt == m.nodes[node].next
           m1 == [m EXCEPT !.lists[l].head = nxt]
           m2 == IF nxt # Null THEN [m1 EXCEPT !.nodes[nxt].prev = Null]
                 ELSE [m1 EXCEPT !.lists[l].tail = Null]
       IN [m |-> [m2 EXCEPT !.nodes[node].next = Null, !.lists[l].size = @ - 1],
           v |-> m.nodes[node].data]

\* an enqueue that adds at the head
enqueue_atHead(m, l, item) ==
  LET n == Len(m.nodes) + 1
      m1 == [m EXCEPT !.nodes = Append(@, Node(item))]
      L == m.lists[l]
  IN IF L.head = Null
       THEN [m1 EXCEPT !.lists[l].head = n, !.lists[l].tail = n,
                       !.lists[l].size = @ + 1]
       ELSE [m1 EXCEPT !.nodes[n].next = L.head, !.nodes[L.head].prev = n,
                       !.lists[l].head = n, !.lists[l].size = @ + 1]

enqueue(m, l, item) == append(m, l, item)

\* a dequeue that returns the front value without removing it
dequeue_noRemove(m, l) ==
  LET node == m.lists[l].head IN
  IF node = Null THEN [m |-> m, v |-> NoneKey]
  ELSE [m |-> m, v |-> m.nodes[node].data]

dequeue(m, l) ==
  LET node == m.lists[l].head IN
  IF node = Null THEN [m |-> m, v |-> NoneKey]
  ELSE LET nxt == m.nodes[node].next
           m1 == [m EXCEPT !.lists[l].head = nxt]
           m2 == IF nxt # Null THEN [m1 EXCEPT !.nodes[nxt].prev = Null]
                 ELSE [m1 EXCEPT !.lists[l].tail = Null]
       IN [m |-> [m2 EXCEPT !.nodes[node].next = Null, !.lists[l].size = @ - 1],
           v |-> m.nodes[node].data]

is_empty(m, l) == m.lists[l].head = Null

\* ------------------------------------------------------- split_linkedlist
\* slow advances one node and fast two while fast can advance two
RECURSIVE SlowFast(_, _, _)
SlowFast(m, slow, fast) ==
  IF m.nodes[fast].next # Null /\ m.nodes[m.nodes[fast].next].next # Null
    THEN SlowFast(m, m.nodes[slow].next, m.nodes[m.nodes[fast].next].next)
    ELSE slow

\* a split that cuts the input chain after slow and hands out its two parts
split_linkedlist_relink(m, l) ==
  LET h == m.lists[l].head IN
  IF h = Null \/ m.nodes[h].next = Null
    THEN LET left == NewListId(m)
             m1 == CopyLoop(NewList(m), h, Null, left)
         IN [m |-> NewList(m1), left |-> left, right |-> NewListId(m1)]
    ELSE LET slow == SlowFast(m, h, h)
             nxt == m.nodes[slow].next
             m1 == [m EXCEPT !.nodes[slow].next = Null, !.nodes[nxt].prev = Null]
             lft == [head |-> h, tail |-> slow, size |-> Len(Iter(m1, h))]
             rgt == [head |-> nxt, tail |-> m.lists[l].tail,
                     size |-> Len(Iter(m1, nxt))]
         IN [m |-> [m1 EXCEPT !.lists = @ \o <<lft, rgt>>],
             left |-> NewListId(m), right |-> NewListId(m) + 1]

split_linkedlist(m, l) ==
  LET h == m.lists[l].head IN
  IF h = Null \/ m.nodes[h].next = Null
    THEN LET left == NewListId(m)
             m1 == CopyLoop(NewList(m), h, Null, left)
         IN [m |-> NewList(m1), left |-> left, right |-> NewListId(m1)]
    ELSE LET slow == SlowFast(m, h, h)
             left == NewListId(m)
             m1 == CopyLoop(NewList(m), h, m.nodes[slow].next, left)
             right == NewListId(m1)
             m2 == CopyLoop(NewList(m1), m.nodes[slow].next, Null, right)
         IN [m |-> m2, left |-> left, right |-> right]

\* ------------------------------------------------------------ merge_sorted
\* a merge that takes the greater front first
MergeTakesLeft_ge(ka, kb) == NkLe(kb, ka)

\* a merge that takes from the right run on ties
MergeTakesLeft_lt(ka, kb) == NkLt(ka, kb)

\* line 86: take from the left run when its front key is <= the right one
MergeTakesLeft(ka, kb) == NkLe(ka, kb)

RECURSIVE MergeLoop(_, _, _, _)
MergeLoop(m, a, b, result) ==
  IF a # Null /\ b # Null
    THEN LET ka == normalize_key(m.nodes[a].data)
             kb == normalize_key(m.nodes[b].data)
         IN IF NkOrdRaises(ka, kb) THEN Raise("TypeError", m)
            ELSE IF MergeTakesLeft(ka, kb)
              THEN MergeLoop(append(m, result, m.nodes[a].data),
                             m.nodes[a].next, b, result)
              ELSE MergeLoop(append(m, result, m.nodes[b].data),
                             a, m.nodes[b].next, result)
    ELSE Ok(CopyLoop(CopyLoop(m, a, Null, result), b, Null, result), result)

merge_sorted(m, left, right) ==
  MergeLoop(NewList(m), m.lists[left].head, m.lists[right].head, NewListId(m))

\* --------------------------------------------------- merge_sort_linkedlist
RECURSIVE merge_sort_linkedlist(_, _)
merge_sort_linkedlist(m, l) ==
  LET h == m.lists[l].head IN
  IF h = Null \/ m.nodes[h].next = Null
    THEN Ok(CopyLoop(NewList(m), h, Null, NewListId(m)), NewListId(m))
    ELSE LET s == split_linkedlist(m, l)
             ls == merge_sort_linkedlist(s.m, s.left)
         IN IF ls.st # "ok" THEN ls
            ELSE LET rs == merge_sort_linkedlist(ls.m, s.right)
                 IN IF rs.st # "ok" THEN rs
                    ELSE merge_sorted(rs.m, ls.l, rs.l)

\* --------------------------------------------------- quick_sort_linkedlist
\* lines 143-151: one pass over the list, appending to less, equal or greater
\* a partition that puts a record equal to the pivot at the front of the
\* equal bucket
RECURSIVE PartitionLoop_equalFront(_, _, _, _, _, _)
PartitionLoop_equalFront(m, cur, pk, less, equal, greater) ==
  IF cur = Null THEN Ok(m, Null)
  ELSE LET d == m.nodes[cur].data
           k == normalize_key(d)
       IN IF NkOrdRaises(k, pk) THEN Raise("TypeError", m)
          ELSE PartitionLoop_equalFront(
                 IF NkLt(k, pk) THEN append(m, less, d)
                 ELSE IF NkEq(k, pk) THEN push(m, equal, d)
                 ELSE append(m, greater, d),
                 m.nodes[cur].next, pk, less, equal, greater)

RECURSIVE PartitionLoop(_, _, _, _, _, _)
PartitionLoop(m, cur, pk, less, equal, greater) ==
  IF cur = Null THEN Ok(m, Null)
  ELSE LET d == m.nodes[cur].data
           k == normalize_key(d)
       IN IF NkOrdRaises(k, pk) THEN Raise("TypeError", m)
          ELSE PartitionLoop(
                 append(m, IF NkLt(k, pk) THEN less
                           ELSE IF NkEq(k, pk) THEN equal ELSE greater, d),
                 m.nodes[cur].next, pk, less, equal, greater)

\* a concatenation that leaves the equal bucket out
Concat3_noEqual(m, a, b, c) ==
  LET out == NewListId(m)
      m1 == CopyLoop(NewList(m), m.lists[a].head, Null, out)
  IN Ok(CopyLoop(m1, m.lists[c].head, Null, out), out)

\* a concatenation that puts the greater bucket before the equal bucket
Concat3_greaterFirst(m, a, b, c) ==
  LET out == NewListId(m)
      m1 == CopyLoop(NewList(m), m.lists[a].head, Null, out)
      m2 == CopyLoop(m1, m.lists[c].head, Null, out)
  IN Ok(CopyLoop(m2, m.lists[b].head, Null, out), out)

\* lines 156-163: out = less_sorted + equal + greater_sorted
Concat3(m, a, b, c) ==
  LET out == NewListId(m)
      m1 == CopyLoop(NewList(m), m.lists[a].head, Null, out)
      m2 == CopyLoop(m1, m.lists[b].head, Null, out)
  IN Ok(CopyLoop(m2, m.lists[c].head, Null, out), out)

RECURSIVE quick_sort_linkedlist(_, _)
quick_sort_linkedlist(m, l) ==
  LET h == m.lists[l].head IN
  IF h = Null \/ m.nodes[h].next = Null
    THEN Ok(CopyLoop(NewList(m), h, Null, NewListId(m)), NewListId(m))
    ELSE LET pk == normalize_key(m.nodes[h].data)
             less == NewListId(m)
             equal == less + 1
             greater == less + 2
             p == PartitionLoop(NewList(NewList(NewList(m))), h, pk,
                                less, equal, greater)
         IN IF p.st # "ok" THEN p
            ELSE LET ls == IF p.m.lists[less].head # Null
                             THEN quick_sort_linkedlist(p.m, less)
                             ELSE Ok(p.m, less)
                 IN IF ls.st # "ok" THEN ls
                    ELSE LET gs == IF ls.m.lists[greater].head # Null
                                     THEN quick_sort_linkedlist(ls.m, greater)
                                     ELSE Ok(ls.m, greater)
                         IN IF gs.st # "ok" THEN gs
                            ELSE Concat3(gs.m, ls.l, equal, gs.l)

\* ----------------------------------------------- three_way_radix_quicksort
\* The character of key s at position depth (0-based), lower-cased; the
\* empty string '' (here 0, below every character code) past the end.
NoChar == 0

\* a character extraction that keeps the case
CharAt_cased(s, depth) == IF depth >= Len(s) THEN NoChar ELSE s[depth + 1]

CharAt(s, depth) == IF depth >= Len(s) THEN NoChar ELSE LowerChar(s[depth + 1])

\* keyfn(record) raises, or len(key) raises because key is not a string
RadixKeyFails(r) == KeyfnRaises(r) \/ keyfn(r).t # "str"

RadixError(r) == IF KeyfnRaises(r) THEN "KeyError" ELSE "TypeError"

\* _sort(recs, depth) on Python lists; the result is [st, recs]
RECURSIVE RadixSort(_, _)
RadixSort(recs, depth) ==
  IF Len(recs) <= 1 THEN [st |-> "ok", recs |-> recs]
  ELSE IF \E i \in 1..Len(recs) : RadixKeyFails(recs[i])
    THEN LET i == CHOOSE j \in 1..Len(recs) :
                    /\ RadixKeyFails(recs[j])
                    /\ \A k \in 1..(j - 1) : ~RadixKeyFails(recs[k])
         IN [st |-> RadixError(recs[i]), recs |-> <<>>]
  ELSE LET char_pivot == CharAt(keyfn(recs[1]).v, depth)
           ch(r) == CharAt(keyfn(r).v, depth)
           lt == SelectSeq(recs, LAMBDA r : ch(r) < char_pivot)
           gt == SelectSeq(recs, LAMBDA r : ch(r) > char_pivot)
           eq0 == SelectSeq(recs, LAMBDA r : ch(r) = char_pivot)
           eq == IF eq0 # <<>> /\ char_pivot # NoChar
                   THEN RadixSort(eq0, depth + 1).recs ELSE eq0
       IN [st |-> "ok",
           recs |-> RadixSort(lt, depth).recs \o eq \o RadixSort(gt, depth).recs]

RECURSIVE AppendAll(_, _, _)
AppendAll(m, l, recs) ==
  IF recs = <<>> THEN m
  ELSE AppendAll(append(m, l, Head(recs)), l, Tail(recs))

three_way_radix_quicksort(m, l) ==
  LET h == m.lists[l].head IN
  IF h = Null \/ m.nodes[h].next = Null
    THEN Raise("AttributeError", m)
    ELSE LET s == RadixSort(Items(m, l), 0)
         IN IF s.st # "ok" THEN Raise(s.st, m)
            ELSE Ok(AppendAll(NewList(m), NewListId(m), s.recs), NewListId(m))

\* ------------------------------------------------------ AVLNode, AVLTree
\* AVLNode(key, record): a fresh group list holding the record
AVLNode(m, key, record) ==
  LET m1 == append(NewList(m), NewListId(m), record)
  IN [m1 EXCEPT !.avl = Append(@, [key |-> key, records |-> NewListId(m),
                                   left |-> Null, right |-> Null,
                                   height |-> 1])]

height(m, node) == IF node # Null THEN m.avl[node].height ELSE 0

Max(a, b) == IF a >= b THEN a ELSE b

update_height(m, node) ==
  [m EXCEPT !.avl[node].height =
     1 + Max(height(m, m.avl[node].left), height(m, m.avl[node].right))]

\* a balance factor that never reports an imbalance
balance_factor_zero(m, node) == 0

balance_factor(m, node) ==
  height(m, m.avl[node].left) - height(m, m.avl[node].right)

\* rotations return the heap and the new subtree root
\* a right rotation that recomputes the new root's height before the old
\* root's
rotate_right_rootFirst(m, y) ==
  LET x == m.avl[y].left
      T2 == m.avl[x].right
      m1 == [m EXCEPT !.avl[x].right = y, !.avl[y].left = T2]
  IN [m |-> update_height(update_height(m1, x), y), n |-> x]

rotate_right(m, y) ==
  LET x == m.avl[y].left
      T2 == m.avl[x].right
      m1 == [m EXCEPT !.avl[x].right = y, !.avl[y].left = T2]
  IN [m |-> update_height(update_height(m1, y), x), n |-> x]

\* a left rotation that forgets to re-attach the subtree T2
rotate_left_dropT2(m, x) ==
  LET y == m.avl[x].right
      m1 == [m EXCEPT !.avl[y].left = x, !.avl[x].right = Null]
  IN [m |-> update_height(update_height(m1, x), y), n |-> y]

rotate_left(m, x) ==
  LET y == m.avl[x].right
      T2 == m.avl[y].left
      m1 == [m EXCEPT !.avl[y].left = x, !.avl[x].right = T2]
  IN [m |-> update_height(update_height(m1, x), y), n |-> y]

\* Outcome of _insert: st, the heap, the subtree root n, and rot, the
\* rotation cases taken on the way back up (for the record only).
InsOk(m, n, rot) == [st |-> "ok", m |-> m, n |-> n, rot |-> rot]
InsRaise(e, m) == [st |-> e, m |-> m, n |-> Null, rot |-> {}]

\* _insert lines 188-201: recompute the height, rotate if out of balance
Rebalance(m0, node, key, rot) ==
  LET m == update_height(m0, node)
      bf == balance_factor(m, node)
      lk == m.avl[m.avl[node].left].key
      rk == m.avl[m.avl[node].right].key
  IN IF bf > 1 /\ PyOrdRaises(key, lk) THEN InsRaise("TypeError", m)
     ELSE IF bf > 1 /\ PyLt(key, lk)
       THEN LET r == rotate_right(m, node)
            IN InsOk(r.m, r.n, rot \cup {"LL"})
     ELSE IF bf < -1 /\ PyOrdRaises(key, rk) THEN InsRaise("TypeError", m)
     ELSE IF bf < -1 /\ PyGt(key, rk)
       THEN LET r == rotate_left(m, node)
            IN InsOk(r.m, r.n, rot \cup {"RR"})
     ELSE IF bf > 1 /\ PyGt(key, lk)
       THEN LET a == rotate_left(m, m.avl[node].left)
                r == rotate_right([a.m EXCEPT !.avl[node].left = a.n], node)
            IN InsOk(r.m, r.n, rot \cup {"LR"})
     ELSE IF bf < -1 /\ PyLt(key, rk)
       THEN LET a == rotate_right(m, m.avl[node].right)
                r == rotate_left([a.m EXCEPT !.avl[node].right = a.n], node)
            IN InsOk(r.m, r.n, rot \cup {"RL"})
     ELSE InsOk(m, node, rot)

\* an _insert that puts a record with a key already present at the front of
\* the node's group
RECURSIVE insert_rec_dupFront(_, _, _, _)
insert_rec_dupFront(m, node, key, record) ==
  IF node = Null THEN InsOk(AVLNode(m, key, record), Len(m.avl) + 1, {})
  ELSE LET nk == m.avl[node].key IN
    IF PyOrdRaises(key, nk) THEN InsRaise("TypeError", m)
    ELSE IF PyLt(key, nk)
      THEN LET r == insert_rec_dupFront(m, m.avl[node].left, key, record)
           IN IF r.st # "ok" THEN r
              ELSE Rebalance([r.m EXCEPT !.avl[node].left = r.n],
                             node, key, r.rot)
    ELSE IF PyGt(key, nk)
      THEN LET r == insert_rec_dupFront(m, m.avl[node].right, key, record)
           IN IF r.st # "ok" THEN r
              ELSE Rebalance([r.m EXCEPT !.avl[node].right = r.n],
                             node, key, r.rot)
    ELSE InsOk(push(m, m.avl[node].records, record), node, {})

\* an _insert that sends a record with a key already present to the right
RECURSIVE insert_rec_dupRight(_, _, _, _)
insert_rec_dupRight(m, node, key, record) ==
  IF node = Null THEN InsOk(AVLNode(m, key, record), Len(m.avl) + 1, {})
  ELSE LET nk == m.avl[node].key IN
    IF PyOrdRaises(key, nk) THEN InsRaise("TypeError", m)
    ELSE IF PyLt(key, nk)
      THEN LET r == insert_rec_dupRight(m, m.avl[node].left, key, record)
           IN IF r.st # "ok" THEN r
              ELSE Rebalance([r.m EXCEPT !.avl[node].left = r.n],
                             node, key, r.rot)
    ELSE LET r == insert_rec_dupRight(m, m.avl[node].right, key, record)
         IN IF r.st # "ok" THEN r
            ELSE Rebalance([r.m EXCEPT !.avl[node].right = r.n],
                           node, key, r.rot)

RECURSIVE insert_rec(_, _, _, _)
insert_rec(m, node, key, record) ==
  IF node = Null THEN InsOk(AVLNode(m, key, record), Len(m.avl) + 1, {})
  ELSE LET nk == m.avl[node].key IN
    IF PyOrdRaises(key, nk) THEN InsRaise("TypeError", m)
    ELSE IF PyLt(key, nk)
      THEN LET r == insert_rec(m, m.avl[node].left, key, record)
           IN IF r.st # "ok" THEN r
              ELSE Rebalance([r.m EXCEPT !.avl[node].left = r.n],
                             node, key, r.rot)
    ELSE IF PyGt(key, nk)
      THEN LET r == insert_rec(m, m.avl[node].right, key, record)
           IN IF r.st # "ok" THEN r
              ELSE Rebalance([r.m EXCEPT !.avl[node].right = r.n],
                             node, key, r.rot)
    ELSE InsOk(append(m, m.avl[node].records, record), node, {})

\* an insert that counts a record only when it made a new node
insert_countNodes(m, t, record) ==
  IF KeyfnRaises(record) THEN [st |-> "KeyError", m |-> m, t |-> t, rot |-> {}]
  ELSE LET r == insert_rec(m, t.root, keyfn(record), record)
       IN IF r.st # "ok" THEN [st |-> r.st, m |-> r.m, t |-> t, rot |-> {}]
          ELSE [st |-> "ok", m |-> r.m,
                t |-> [root |-> r.n,
                       count |-> t.count + Len(r.m.avl) - Len(m.avl)],
                rot |-> r.rot]

\* AVLTree.insert: the key function may raise; then nothing is stored
insert(m, t, record) ==
  IF KeyfnRaises(record) THEN [st |-> "KeyError", m |-> m, t |-> t, rot |-> {}]
  ELSE LET r == insert_rec(m, t.root, keyfn(record), record)
       IN IF r.st # "ok" THEN [st |-> r.st, m |-> r.m, t |-> t, rot |-> {}]
          ELSE [st |-> "ok", m |-> r.m,
                t |-> [root |-> r.n, count |-> t.count + 1], rot |-> r.rot]

\* a find that hands out the node's own group list
RECURSIVE FindLoop_alias(_, _, _)
FindLoop_alias(m, node, key) ==
  IF node = Null THEN Ok(NewList(m), NewListId(m))
  ELSE LET nk == m.avl[node].key IN
    IF PyEq(key, nk) THEN Ok(m, m.avl[node].records)
    ELSE IF PyOrdRaises(key, nk) THEN Raise("TypeError", m)
    ELSE IF PyLt(key, nk) THEN FindLoop_alias(m, m.avl[node].left, key)
    ELSE FindLoop_alias(m, m.avl[node].right, key)

\* AVLTree.find
RECURSIVE FindLoop(_, _, _)
FindLoop(m, node, key) ==
  IF node = Null THEN Ok(NewList(m), NewListId(m))
  ELSE LET nk == m.avl[node].key IN
    IF PyEq(key, nk)
      THEN Ok(CopyLoop(NewList(m), m.lists[m.avl[node].records].head, Null,
                       NewListId(m)), NewListId(m))
    ELSE IF PyOrdRaises(key, nk) THEN Raise("TypeError", m)
    ELSE IF PyLt(key, nk) THEN FindLoop(m, m.avl[node].left, key)
    ELSE FindLoop(m, m.avl[node].right, key)

find(m, t, key) == FindLoop(m, t.root, key)

\* AVLTree.inorder: every record, left subtree, node group, right subtree
RECURSIVE inorder(_, _)
inorder(m, node) ==
  IF node = Null THEN <<>>
  ELSE inorder(m, m.avl[node].left) \o Items(m, m.avl[node].records)
       \o inorder(m, m.avl[node].right)

\* AVLTree.items: one (key, group) pair per node, in order
RECURSIVE items(_, _)
items(m, node) ==
  IF node = Null THEN <<>>
  ELSE items(m, m.avl[node].left)
       \o <<[key |-> m.avl[node].key, records |-> m.avl[node].records]>>
       \o items(m, m.avl[node].right)

\* AVLTree.level_order: the (key, group) pairs in the order the generator
\* yields them, and the heap with the Queue it used.  The queue holds
\* references to tree nodes.
RECURSIVE LevelLoop(_, _, _)
LevelLoop(m, ql, out) ==
  IF is_empty(m, ql) THEN [m |-> m, out |-> out]
  ELSE LET r == dequeue(m, ql)
           node == r.v.ref
           m1 == IF m.avl[node].left # Null
                   THEN enqueue(r.m, ql, [ref |-> m.avl[node].left]) ELSE r.m
           m2 == IF m.avl[node].right # Null
                   THEN enqueue(m1, ql, [ref |-> m.avl[node].right]) ELSE m1
       IN LevelLoop(m2, ql,
                    Append(out, [key |-> m.avl[node].key,
                                 records |-> m.avl[node].records]))

level_order(m, t) ==
  IF t.root = Null THEN [m |-> m, out |-> <<>>]
  ELSE LevelLoop(enqueue(NewList(m), NewListId(m), [ref |-> t.root]),
                 NewListId(m), <<>>)

\* A predicate on records: it raises on the records whose id is in bad and
\* otherwise holds of those whose id is in hit.
PredRaises(p, r) == r.id \in p.bad

PredHolds(p, r) == r.id \in p.hit

\* a try that takes a raising predicate for a match
TryPredicate_raiseMatches(p, r) == PredRaises(p, r) \/ PredHolds(p, r)

\* lines 290-295: try: if predicate(rec): yield rec / except: continue
TryPredicate(p, r) == IF PredRaises(p, r) THEN FALSE ELSE PredHolds(p, r)

\* AVLTree.find_by_predicate: the records the generator yields, in order
RECURSIVE find_by_predicate(_, _, _)
find_by_predicate(m, node, p) ==
  IF node = Null THEN <<>>
  ELSE find_by_predicate(m, m.avl[node].left, p)
       \o SelectSeq(Items(m, m.avl[node].records), LAMBDA r : TryPredicate(p, r))
       \o find_by_predicate(m, m.avl[node].right, p)

tree_size(t) == t.count

\* ------------------------------------------------------------------ state
\* mem: the heap; ll: the program's main list (main.py `ll`); stk, q: the
\* lists under the program's Stack and Queue (main.py `stk`, `q`); hist: the
\* values pushed and not yet popped, and enqueued and not yet dequeued, oldest
\* first, as the calls made so far determine them; pc: where the
\* program is (loading records, holding a sorted list, having replaced ll
\* by it, or ended by an uncaught exception); tree: the AVLTree object;
\* stored: the records the tree accepted, in insertion order; finds: how
\* many find calls were made; op: the last operation, its argument, its
\* outcome (st) and its result (out), with the content of the argument
\* list, or the records stored, before the call (before).
\* Keys of every kind: the number 2, True (which compares as 1), a date, the
\* strings "a", "B" and "ab", None, and a key function that raises
SortKeys ==
  {IntKey(2), BoolKey(1), DateKey(1), StrKey(<<97>>), StrKey(<<66>>),
   StrKey(<<97, 98>>), NoneKey, RaiseKey}

Init ==
  /\ mem = NewList(NewList(NewList(EmptyMem)))
  /\ ll = 1
  /\ stk = 2
  /\ q = 3
  /\ hist = [stk |-> <<>>, q |-> <<>>]
  /\ tree = [root |-> Null, count |-> 0]
  /\ stored = <<>>
  /\ pc = "load"
  /\ finds = 0
  /\ op = [name |-> "init", st |-> "ok", arg |-> Null, out |-> Null,
           before |-> <<>>]
  /\ frames = <<>>

\* load_csv: ll.append(rec)
ListAppend(k) ==
  /\ pc = "load"
  /\ size(mem, ll) < MaxLen
  /\ mem' = append(mem, ll, Record(size(mem, ll) + 1, k))
  /\ op' = [name |-> "append", st |-> "ok", arg |-> ll, out |-> Null,
            before |-> <<>>]
  /\ UNCHANGED <<ll, stk, q, pc, tree, stored, finds, hist, frames>>

\* interactive_menu: ll_sorted = sort(ll, keyfn); an exception a sort raises
\* is caught nowhere and ends the program
SortCall(name, res) ==
  /\ pc = "load"
  /\ \E r \in {res} :
       /\ mem' = r.m
       /\ op' = [name |-> name, st |-> r.st, arg |-> ll, out |-> r.l,
                 before |-> Items(mem, ll)]
       /\ pc' = IF r.st = "ok" THEN "sorted" ELSE "crashed"
  /\ UNCHANGED <<ll, stk, q, tree, stored, finds, hist, frames>>

MergeSort == SortCall("merge_sort", merge_sort_linkedlist(mem, ll))

QuickSort == SortCall("quick_sort", quick_sort_linkedlist(mem, ll))

RadixQuickSort == SortCall("radix_sort", three_way_radix_quicksort(mem, ll))

SortNames == {"merge_sort", "quick_sort", "radix_sort"}

\* interactive_menu: ll = ll_sorted
Adopt ==
  /\ pc = "sorted"
  /\ ll' = op.out
  /\ pc' = "adopted"
  /\ UNCHANGED <<mem, stk, q, tree, stored, finds, hist, op, frames>>

NextSort ==
  \/ \E k \in SortKeys : ListAppend(k)
  \/ MergeSort
  \/ QuickSort
  \/ RadixQuickSort
  \/ Adopt

SpecSort == Init /\ [][NextSort]_vars

\* ------------------------------------------------------------ tree actions
\* Keys of one comparable kind, for trees large enough to rotate at depth
IntKeys == {IntKey(n) : n \in 1..6}

\* Keys of every kind a field can hold: numbers, a date, strings differing
\* in case only, None, and a key function that raises
IndexKeys ==
  {IntKey(1), IntKey(2), DateKey(1), StrKey(<<85, 83>>),
   StrKey(<<117, 115>>), NoneKey, RaiseKey}

FindKeys == IndexKeys \ {RaiseKey}

\* load_csv / interactive_menu: tree.insert(rec)
TreeInsert(k, max) ==
  /\ tree.count < max
  /\ \E rec \in {Record(tree.count + 1, k)} :
       \E r \in {insert(mem, tree, rec)} :
         /\ mem' = r.m
         /\ tree' = r.t
         /\ stored' = IF r.st = "ok" THEN Append(stored, rec) ELSE stored
         /\ op' = [name |-> "insert", st |-> r.st, arg |-> rec,
                   out |-> r.rot, before |-> stored]
  /\ UNCHANGED <<ll, stk, q, pc, finds, hist, frames>>

TreeFind(k) ==
  /\ finds < MaxFinds
  /\ \E r \in {find(mem, tree, k)} :
       /\ mem' = r.m
       /\ op' = [name |-> "find", st |-> r.st, arg |-> k, out |-> r.l,
                 before |-> stored]
  /\ finds' = finds + 1
  /\ UNCHANGED <<ll, stk, q, pc, tree, stored, hist, frames>>

\* A tree over keys of one kind
NextTree == \E k \in IntKeys : TreeInsert(k, MaxInserts)

SpecTree == Init /\ [][NextTree]_vars

\* A tree over keys of every kind, with lookups
NextIndex ==
  \/ \E k \in IndexKeys : TreeInsert(k, MaxIndexed)
  \/ \E k \in FindKeys : TreeFind(k)

SpecIndex == Init /\ [][NextIndex]_vars

\* ------------------------------------------------------ tree query actions
\* A tree over keys of one kind, loaded and then queried once.
QueryKeys == {IntKey(n) : n \in 1..5}

\* Keys looked up: two that may be present and one that never is
ProbeKeys == {IntKey(2), IntKey(4), IntKey(6)}

\* Predicates that hold of every record or of the odd-numbered ones, and
\* raise on none or on the second and third record
Predicates == {[hit |-> h, bad |-> b] : h \in {1..6, {1, 3, 5}}, b \in {{}, {2, 3}}}

QueryInsert(k) == pc = "load" /\ TreeInsert(k, MaxQueried)

\* out = tree.find(key)
QueryFind(k) ==
  /\ pc = "load"
  /\ \E r \in {find(mem, tree, k)} :
       /\ mem' = r.m
       /\ op' = [name |-> "find", st |-> r.st, arg |-> k, out |-> r.l,
                 before |-> stored]
       /\ pc' = IF r.st = "ok" THEN "found" ELSE "crashed"
  /\ UNCHANGED <<ll, stk, q, tree, stored, finds, hist, frames>>

\* out.append(rec) on the list find returned
ResultAppend ==
  /\ pc = "found"
  /\ mem' = append(mem, op.out, Record(tree.count + 1, op.arg))
  /\ op' = [op EXCEPT !.name = "result_append",
                      !.before = inorder(mem, tree.root)]
  /\ pc' = "mutated"
  /\ UNCHANGED <<ll, stk, q, tree, stored, finds, hist, frames>>

\* out.clear() on the list find returned
ResultClear ==
  /\ pc = "found"
  /\ mem' = clear(mem, op.out)
  /\ op' = [op EXCEPT !.name = "result_clear",
                      !.before = inorder(mem, tree.root)]
  /\ pc' = "mutated"
  /\ UNCHANGED <<ll, stk, q, tree, stored, finds, hist, frames>>

\* for key, records in tree.level_order(): ...
TreeLevelOrder ==
  /\ pc = "load"
  /\ \E r \in {level_order(mem, tree)} :
       /\ mem' = r.m
       /\ op' = [name |-> "level_order", st |-> "ok", arg |-> Null,
                 out |-> r.out, before |-> stored]
  /\ pc' = "queried"
  /\ UNCHANGED <<ll, stk, q, tree, stored, finds, hist, frames>>

\* search_by_field_in_tree: out = LinkedList();
\* for r in tree.find_by_predicate(pred): out.append(r)
TreeFindByPredicate(p) ==
  /\ pc = "load"
  /\ mem' = AppendAll(NewList(mem), NewListId(mem),
                      find_by_predicate(mem, tree.root, p))
  /\ op' = [name |-> "find_by_predicate", st |-> "ok", arg |-> p,
            out |-> NewListId(mem), before |-> stored]
  /\ pc' = "queried"
  /\ UNCHANGED <<ll, stk, q, tree, stored, finds, hist, frames>>

NextQuery ==
  \/ \E k \in QueryKeys : QueryInsert(k)
  \/ \E k \in ProbeKeys : QueryFind(k)
  \/ ResultAppend
  \/ ResultClear
  \/ TreeLevelOrder
  \/ \E p \in Predicates : TreeFindByPredicate(p)

SpecQuery == Init /\ [][NextQuery]_vars

\* ------------------------------------------- list, stack and queue actions
\* Values stored in the three structures: records numbered by creation
ItemKeys == {IntKey(1), IntKey(2)}

NewItem(k) == Record(Len(mem.nodes) + 1, k)

Front(seq) == SubSeq(seq, 1, Len(seq) - 1)

\* ll.append(rec)
LinAppend(k) ==
  /\ Len(mem.nodes) < MaxNodes
  /\ mem' = append(mem, ll, NewItem(k))
  /\ op' = [name |-> "append", st |-> "ok", arg |-> NewItem(k), out |-> Null,
            before |-> <<>>]
  /\ UNCHANGED <<ll, stk, q, pc, tree, stored, finds, hist, frames>>

\* ll.clear()
LinClear ==
  /\ mem' = clear(mem, ll)
  /\ op' = [name |-> "clear", st |-> "ok", arg |-> ll, out |-> Null,
            before |-> Items(mem, ll)]
  /\ UNCHANGED <<ll, stk, q, pc, tree, stored, finds, hist, frames>>

\* stk.push(rec)
StackPush(k) ==
  /\ Len(mem.nodes) < MaxNodes
  /\ mem' = push(mem, stk, NewItem(k))
  /\ hist' = [hist EXCEPT !.stk = Append(@, NewItem(k))]
  /\ op' = [name |-> "push", st |-> "ok", arg |-> NewItem(k), out |-> Null,
            before |-> hist.stk]
  /\ UNCHANGED <<ll, stk, q, pc, tree, stored, finds, frames>>

\* stk.pop()
StackPop ==
  /\ \E r \in {pop(mem, stk)} :
       /\ mem' = r.m
       /\ op' = [name |-> "pop", st |-> "ok", arg |-> stk, out |-> r.v,
                 before |-> hist.stk]
  /\ hist' = [hist EXCEPT !.stk = Front(@)]
  /\ UNCHANGED <<ll, stk, q, pc, tree, stored, finds, frames>>

\* q.enqueue(rec)
QueueEnqueue(k) ==
  /\ Len(mem.nodes) < MaxNodes
  /\ mem' = enqueue(mem, q, NewItem(k))
  /\ hist' = [hist EXCEPT !.q = Append(@, NewItem(k))]
  /\ op' = [name |-> "enqueue", st |-> "ok", arg |-> NewItem(k), out |-> Null,
            before |-> hist.q]
  /\ UNCHANGED <<ll, stk, q, pc, tree, stored, finds, frames>>

\* q.dequeue()
QueueDequeue ==
  /\ \E r \in {dequeue(mem, q)} :
       /\ mem' = r.m
       /\ op' = [name |-> "dequeue", st |-> "ok", arg |-> q, out |-> r.v,
                 before |-> hist.q]
  /\ hist' = [hist EXCEPT !.q = IF @ = <<>> THEN @ ELSE Tail(@)]
  /\ UNCHANGED <<ll, stk, q, pc, tree, stored, finds, frames>>

NextLinear ==
  \/ \E k \in ItemKeys : LinAppend(k)
  \/ LinClear
  \/ \E k \in ItemKeys : StackPush(k)
  \/ StackPop
  \/ \E k \in ItemKeys : QueueEnqueue(k)
  \/ QueueDequeue

SpecLinear == Init /\ [][NextLinear]_vars

\* ------------------------------------------------------------ load actions
\* load_csv, one row: the record goes to the list, the stack, the queue and
\* the tree; an exception of tree.insert is caught nowhere and ends the load
LoadRow(k) ==
  /\ pc = "load"
  /\ size(mem, ll) < MaxLoaded
  /\ \E rec \in {Record(size(mem, ll) + 1, k)} :
       \E r \in {insert(enqueue(push(append(mem, ll, rec), stk, rec), q, rec),
                        tree, rec)} :
         /\ mem' = r.m
         /\ tree' = r.t
         /\ stored' = IF r.st = "ok" THEN Append(stored, rec) ELSE stored
         /\ hist' = [stk |-> Append(hist.stk, rec), q |-> Append(hist.q, rec)]
         /\ op' = [name |-> "load", st |-> r.st, arg |-> rec, out |-> r.rot,
                   before |-> stored]
         /\ pc' = IF r.st = "ok" THEN "load" ELSE "crashed"
  /\ UNCHANGED <<ll, stk, q, finds, frames>>

\* Rows are loaded, then the list is sorted by the field the tree is keyed by
NextLoad ==
  \/ \E k \in IndexKeys : LoadRow(k)
  \/ MergeSort

SpecLoad == Init /\ [][NextLoad]_vars

\* ================================================================ properties
\* Auxiliary notions used to state the properties.
RECURSIVE TreeNodes(_, _)
TreeNodes(m, n) ==
  IF n = Null THEN {}
  ELSE {n} \cup TreeNodes(m, m.avl[n].left) \cup TreeNodes(m, m.avl[n].right)

RECURSIVE TrueHeight(_, _)
TrueHeight(m, n) ==
  IF n = Null THEN 0
  ELSE 1 + Max(TrueHeight(m, m.avl[n].left), TrueHeight(m, m.avl[n].right))

Count(seq, x) == Cardinality({i \in 1..Len(seq) : seq[i] = x})

IsPerm(a, b) ==
  /\ Len(a) = Len(b)
  /\ \A i \in 1..Len(a) : Count(a, a[i]) = Count(b, a[i])

Nk(r) == normalize_key(r)

SortedNk(seq) ==
  \A i \in 1..(Len(seq) - 1) :
    ~NkOrdRaises(Nk(seq[i]), Nk(seq[i + 1])) /\ NkLe(Nk(seq[i]), Nk(seq[i + 1]))

PosIn(seq, x) == CHOOSE i \in 1..Len(seq) : seq[i] = x

Absent(r) == r.key.t \in {"none", "raise"}

Returned(names) == op.name \in names /\ op.st = "ok"

\* C1: after any sequence of insert calls every node of the tree has left
\* and right subtrees whose true heights differ by at most 1.
C1_Balanced ==
  \A n \in TreeNodes(mem, tree.root) :
    LET d == TrueHeight(mem, mem.avl[n].left) - TrueHeight(mem, mem.avl[n].right)
    IN d \in {-1, 0, 1}

\* a single right rotation at the root of a six-node tree
C1_Witness ==
  /\ op.name = "insert" /\ op.st = "ok" /\ "LL" \in op.out
  /\ Cardinality(TreeNodes(mem, tree.root)) = 6
  /\ op.arg.id = 6

\* C2: after any sequence of insert calls the tree is a binary search tree
\* (left subtree keys strictly below, right subtree keys strictly above the
\* node's key) and no node or record has been lost by a rotation.
C2_SearchTree ==
  LET N == TreeNodes(mem, tree.root) IN
  /\ \A n \in N :
       /\ \A x \in TreeNodes(mem, mem.avl[n].left) :
            ~PyOrdRaises(mem.avl[x].key, mem.avl[n].key)
              /\ PyLt(mem.avl[x].key, mem.avl[n].key)
       /\ \A x \in TreeNodes(mem, mem.avl[n].right) :
            ~PyOrdRaises(mem.avl[n].key, mem.avl[x].key)
              /\ PyLt(mem.avl[n].key, mem.avl[x].key)
  /\ {mem.avl[n].key : n \in N} = {stored[i].key : i \in 1..Len(stored)}
  /\ IsPerm(inorder(mem, tree.root), stored)

\* a right-left double rotation that moves a non-empty subtree
C2_Witness ==
  /\ op.name = "insert" /\ op.st = "ok" /\ "RL" \in op.out
  /\ Cardinality(TreeNodes(mem, tree.root)) = 6
  /\ mem.avl[tree.root].left # Null
  /\ mem.avl[mem.avl[tree.root].left].right # Null

\* C3: find(k) returns exactly the stored records whose normalized key equals
\* the normalized k (strings matching case-insensitively), in insertion order,
\* and an empty list when there is none.
C3_FindByNormalizedKey ==
  op.name = "find" =>
    /\ op.st = "ok"
    /\ Items(mem, op.out)
         = SelectSeq(stored, LAMBDA r : NkEq(Nk(r), Nk(Record(0, op.arg))))

\* C4: the list returned by merge sort, and by quick sort, is non-decreasing
\* under the normalized-key order.
C4_SortedOutput ==
  Returned({"merge_sort", "quick_sort"}) => SortedNk(Items(mem, op.out))

\* quick sort returned on an unsorted list holding keys of all three classes
C4_Witness ==
  /\ Returned({"quick_sort"})
  /\ Len(op.before) >= 3
  /\ ~SortedNk(op.before)
  /\ {Nk(op.before[i]).c : i \in 1..Len(op.before)} = {0, 1, 2}

\* C5: the list returned by merge sort, and by quick sort, has the input's
\* size and holds the same records as the input, each as often.
C5_Permutation ==
  Returned({"merge_sort", "quick_sort"}) =>
    /\ size(mem, op.out) = Len(op.before)
    /\ size(mem, op.out) = size(mem, op.arg)
    /\ IsPerm(Items(mem, op.out), op.before)

\* merge sort returned on a list of odd length with a repeated key and
\* changed its order
C5_Witness ==
  /\ Returned({"merge_sort"})
  /\ Len(op.before) = 3
  /\ Items(mem, op.out) # op.before
  /\ op.before[1].key = op.before[3].key

\* C6: on every list of string-keyed records, the empty and the one-element
\* list included, radix quicksort returns a list of the input's length that
\* is a permutation of the input.
C6_RadixPermutation ==
  (op.name = "radix_sort"
     /\ \A i \in 1..Len(op.before) : op.before[i].key.t = "str") =>
    /\ op.st = "ok"
    /\ size(mem, op.out) = Len(op.before)
    /\ IsPerm(Items(mem, op.out), op.before)

\* C7: the output of radix quicksort on string keys is non-decreasing in
\* case-insensitive lexicographic order, a proper prefix before its
\* extensions.
C7_RadixSorted ==
  Returned({"radix_sort"}) =>
    LET out == Items(mem, op.out) IN
    \A i \in 1..(Len(out) - 1) :
      /\ out[i].key.t = "str" /\ out[i + 1].key.t = "str"
      /\ ~LexLt(Lower(out[i + 1].key.v), Lower(out[i].key.v))

\* radix quicksort returned on a list holding "ab" before its prefix "a",
\* and an upper-case "B" before both
C7_Witness ==
  /\ Returned({"radix_sort"})
  /\ \E i, j, k \in 1..Len(op.before) :
       /\ i < j /\ j < k
       /\ op.before[i].key = StrKey(<<66>>)
       /\ op.before[j].key = StrKey(<<97, 98>>)
       /\ op.before[k].key = StrKey(<<97>>)

\* C8: merge sort is stable: records with equal normalized keys keep their
\* input order in the output.
C8_MergeStable ==
  Returned({"merge_sort"}) =>
    LET out == Items(mem, op.out) IN
    \A i, j \in 1..Len(out) :
      (i < j /\ NkEq(Nk(out[i]), Nk(out[j]))) =>
        PosIn(op.before, out[i]) < PosIn(op.before, out[j])

\* merge sort returned on an unsorted list in which a None key comes before
\* a key that raises (equal normalized keys) and both must move behind True
C8_Witness ==
  /\ Returned({"merge_sort"})
  /\ Len(op.before) >= 3
  /\ ~SortedNk(op.before)
  /\ op.before[1].key = NoneKey
  /\ op.before[2].key = RaiseKey
  /\ op.before[3].key = BoolKey(1)
  /\ Items(mem, op.out)[1] = op.before[3]

\* C9: inserting a record whose key is None or whose key function raises
\* succeeds, the record is stored and counted, absent-key records come last
\* in key order, and later insertions still succeed.
C9_AbsentKeyInsert ==
  (op.name = "insert"
     /\ (Absent(op.arg) \/ \E i \in 1..Len(op.before) : Absent(op.before[i]))) =>
    /\ op.st = "ok"
    /\ stored = Append(op.before, op.arg)
    /\ tree_size(tree) = Len(op.before) + 1
    /\ LET io == inorder(mem, tree.root)
       IN \A i, j \in 1..Len(io) : (i < j /\ Absent(io[i])) => Absent(io[j])

\* C10: merge sort and quick sort never fail on a list mixing key kinds, and
\* put class 0 (number, date, boolean) before class 1 (string) before class 2
\* (None, raising key function), strings compared case-insensitively.
C10_MixedKinds ==
  op.name \in {"merge_sort", "quick_sort"} =>
    /\ op.st = "ok"
    /\ LET out == Items(mem, op.out)
       IN \A i, j \in 1..Len(out) :
            i < j =>
              /\ Nk(out[i]).c <= Nk(out[j]).c
              /\ (out[i].key.t = "str" /\ out[j].key.t = "str") =>
                   ~LexLt(Lower(out[j].key.v), Lower(out[i].key.v))

\* The nodes reached from n by at most k next links
RECURSIVE Chain(_, _, _)
Chain(m, n, k) ==
  IF n = Null \/ k = 0 THEN <<>>
  ELSE <<n>> \o Chain(m, m.nodes[n].next, k - 1)

\* The list is well formed: an acyclic chain of size nodes from head, ending
\* at tail, and head, tail and size agree on emptiness
WellFormed(m, l) ==
  LET L == m.lists[l]
      c == Chain(m, L.head, Len(m.nodes) + 1)
  IN /\ Len(c) <= Len(m.nodes)
     /\ Cardinality({c[i] : i \in 1..Len(c)}) = Len(c)
     /\ L.size = Len(c)
     /\ (c # <<>>) => (L.tail = c[Len(c)])
     /\ (L.head = Null) <=> (L.tail = Null)
     /\ (L.tail = Null) <=> (L.size = 0)

\* C17: the stack is last-in first-out: pop on a non-empty stack returns and
\* removes the most recent value pushed and not yet popped; pop on an empty
\* stack returns None and leaves the stack empty with size 0; the stack
\* always holds the values pushed and not yet popped, newest on top.
C17_StackLIFO ==
  /\ Items(mem, stk) = [i \in 1..Len(hist.stk) |-> hist.stk[Len(hist.stk) + 1 - i]]
  /\ size(mem, stk) = Len(hist.stk)
  /\ size(mem, stk) >= 0
  /\ op.name = "pop" =>
       IF op.before = <<>>
         THEN op.out = NoneKey /\ is_empty(mem, stk) /\ size(mem, stk) = 0
         ELSE op.out = op.before[Len(op.before)]

\* a pop of the third value created while the first one is still below it:
\* pushes and pops were interleaved
C17_Witness ==
  /\ op.name = "pop"
  /\ Len(op.before) = 2
  /\ op.before[1].id = 1
  /\ op.out.id = 3
  /\ Items(mem, stk) = <<op.before[1]>>

\* C18: the queue is first-in first-out: dequeue on a non-empty queue
\* returns and removes the oldest value enqueued and not yet dequeued;
\* dequeue on an empty queue returns None and leaves it empty with size 0;
\* the queue always holds the values enqueued and not yet dequeued, oldest
\* first, also after it was drained to empty.
C18_QueueFIFO ==
  /\ Items(mem, q) = hist.q
  /\ size(mem, q) = Len(hist.q)
  /\ op.name = "dequeue" =>
       IF op.before = <<>>
         THEN op.out = NoneKey /\ is_empty(mem, q) /\ size(mem, q) = 0
         ELSE op.out = op.before[1]

\* a dequeue from a queue of two values that had been drained to empty and
\* filled again
C18_Witness ==
  /\ op.name = "dequeue"
  /\ Len(op.before) = 2
  /\ op.out.id = 2
  /\ Items(mem, q) = <<op.before[2]>>
  /\ is_empty(mem, ll) /\ is_empty(mem, stk) /\ hist.stk = <<>>

\* C19: the main list, the stack's list and the queue's list are well formed
\* after every operation.
C19_ListWellFormed ==
  /\ WellFormed(mem, ll)
  /\ WellFormed(mem, stk)
  /\ WellFormed(mem, q)

\* the last value of the stack was popped while the main list, cleared
\* before, holds one value again and the queue holds two
C19_Witness ==
  /\ op.name = "pop" /\ Len(op.before) = 1
  /\ is_empty(mem, stk)
  /\ size(mem, ll) = 1 /\ mem.lists[ll].head > 1
  /\ size(mem, q) = 2

\* The nodes of list l
ListNodes(m, l) ==
  LET c == Chain(m, m.lists[l].head, Len(m.nodes)) IN {c[i] : i \in 1..Len(c)}

C12_SizeCountsInserts ==
  /\ tree_size(tree) = Len(stored)
  /\ (op.name = "insert" /\ op.st = "ok") =>
       tree_size(tree) = Len(op.before) + 1

\* the sixth insert rotated, in a tree that holds a key twice
C12_Witness ==
  /\ op.name = "insert" /\ op.st = "ok" /\ op.out # {}
  /\ Len(stored) = 6
  /\ Cardinality(TreeNodes(mem, tree.root)) = 5

RECURSIVE SumSizes(_, _)
SumSizes(m, its) ==
  IF its = <<>> THEN 0
  ELSE size(m, Head(its).records) + SumSizes(m, Tail(its))

\* C13: items() yields one pair per node and per distinct key, in strictly
\* ascending key order; the group paired with a key holds exactly the records
\* inserted with that key, in insertion order; the group sizes sum to
\* tree.size().
C13_OneNodePerKey ==
  LET its == items(mem, tree.root) IN
  /\ Len(its) = Cardinality(TreeNodes(mem, tree.root))
  /\ Len(its) = Cardinality({stored[i].key : i \in 1..Len(stored)})
  /\ \A i \in 1..(Len(its) - 1) :
       ~PyOrdRaises(its[i].key, its[i + 1].key) /\ PyLt(its[i].key, its[i + 1].key)
  /\ \A i \in 1..Len(its) :
       /\ Items(mem, its[i].records)
            = SelectSeq(stored, LAMBDA r : PyEq(r.key, its[i].key))
       /\ size(mem, its[i].records) = Len(Items(mem, its[i].records))
  /\ SumSizes(mem, its) = tree_size(tree)

\* a record was inserted with a key that a node below the root already held,
\* in a tree of four or more nodes
C13_Witness ==
  /\ op.name = "insert" /\ op.st = "ok"
  /\ \E i \in 1..Len(op.before) : op.before[i].key = op.arg.key
  /\ mem.avl[tree.root].key # op.arg.key
  /\ Cardinality(TreeNodes(mem, tree.root)) >= 4

\* The way from node `from` down to node n: 1 for a left link, 2 for a right
RECURSIVE PathTo(_, _, _)
PathTo(m, from, n) ==
  IF from = n THEN <<>>
  ELSE IF n \in TreeNodes(m, m.avl[from].left)
    THEN <<1>> \o PathTo(m, m.avl[from].left, n)
    ELSE <<2>> \o PathTo(m, m.avl[from].right, n)

PairOf(m, n) == [key |-> m.avl[n].key, records |-> m.avl[n].records]

\* C14: level_order() yields the (key, group) pair of every node exactly
\* once, nodes nearer the root first and the nodes of one depth from left to
\* right; on an empty tree it yields nothing.
C14_LevelOrder ==
  op.name = "level_order" =>
    LET out == op.out
        N == TreeNodes(mem, tree.root)
        at(i) == CHOOSE n \in N : PairOf(mem, n) = out[i]
        path(i) == PathTo(mem, tree.root, at(i))
    IN /\ Len(out) = Cardinality(N)
       /\ \A n \in N :
            Cardinality({i \in 1..Len(out) : out[i] = PairOf(mem, n)}) = 1
       /\ \A i, j \in 1..Len(out) :
            i < j =>
              /\ Len(path(i)) <= Len(path(j))
              /\ Len(path(i)) = Len(path(j)) => LexLt(path(i), path(j))
       /\ tree.root = Null => out = <<>>

\* the traversal of a tree of three levels in which both children of the
\* root have a child
C14_Witness ==
  /\ op.name = "level_order"
  /\ Len(op.out) = 5
  /\ \E a, b \in TreeNodes(mem, tree.root) :
       /\ a = mem.avl[tree.root].left /\ b = mem.avl[tree.root].right
       /\ a # Null /\ b # Null
       /\ mem.avl[a].right # Null /\ mem.avl[b].left # Null

\* C15: find_by_predicate(p) yields exactly the stored records of which p
\* holds without raising, each once, in ascending key order and in insertion
\* order within a key; a record on which p raises is left out and the scan
\* goes on past it without an error.
C15_PredicateScan ==
  op.name = "find_by_predicate" =>
    LET out == Items(mem, op.out)
        p == op.arg
    IN /\ op.st = "ok"
       /\ IsPerm(out, SelectSeq(stored, LAMBDA r : PredHolds(p, r) /\ ~PredRaises(p, r)))
       /\ \A i, j \in 1..Len(out) :
            i < j => \/ PyLt(out[i].key, out[j].key)
                     \/ out[i].key = out[j].key /\ out[i].id < out[j].id

\* the predicate raised on the second record, which shares its key with a
\* later record that matches, and on the third; records before and after
\* them in key order were yielded
C15_Witness ==
  /\ op.name = "find_by_predicate"
  /\ op.arg.bad = {2, 3}
  /\ Len(stored) = 5
  /\ stored[2].key = stored[4].key
  /\ PyLt(stored[1].key, stored[2].key) /\ PyLt(stored[3].key, stored[1].key)
  /\ PyLt(stored[2].key, stored[5].key)
  /\ Len(Items(mem, op.out)) = 3

\* C16: appending to, or clearing, the list find returned changes nothing in
\* the tree: inorder() yields what it did before, every group holds the
\* records inserted with its key, size() is the number of inserts, and a
\* later find returns the records inserted with the key it is given.
C16_FindDetached ==
  op.name \in {"result_append", "result_clear"} =>
    /\ inorder(mem, tree.root) = op.before
    /\ tree_size(tree) = Len(stored)
    /\ \A n \in TreeNodes(mem, tree.root) :
         /\ Items(mem, mem.avl[n].records)
              = SelectSeq(stored, LAMBDA r : PyEq(r.key, mem.avl[n].key))
         /\ size(mem, mem.avl[n].records) = Len(Items(mem, mem.avl[n].records))
    /\ \A k \in ProbeKeys :
         LET r == find(mem, tree, k)
         IN /\ r.st = "ok"
            /\ r.l # op.out
            /\ Items(r.m, r.l) = SelectSeq(stored, LAMBDA x : PyEq(x.key, k))

\* a record was appended to the list find returned for a key that two
\* records of a node below the root share
C16_Witness ==
  /\ op.name = "result_append"
  /\ Len(Items(mem, op.out)) = 3
  /\ mem.avl[tree.root].key # op.arg
  /\ Len(SelectSeq(stored, LAMBDA r : r.key = op.arg)) = 2

\* C11: when the records of a list were inserted in list order into a tree
\* keyed by the key function the list is sorted by, inorder() yields the
\* record sequence merge sort returns for that list.
C11_TreeAgreesWithSort ==
  Returned({"merge_sort"}) => inorder(mem, tree.root) = Items(mem, op.out)
\* ------------------------------------------------------ comparison of keys
\* Raw keys of every kind _normalize_key accepts: numbers, booleans, dates,
\* strings, None, and a key function that raises
CompareKeys ==
  SortKeys \cup IndexKeys \cup IntKeys \cup {BoolKey(0), DateKey(2)}

\* merge_sorted: _normalize_key(keyfn, a.data) <= _normalize_key(keyfn,
\* b.data), for two records with the keys a and b
NormalizedCompare(a, b) ==
  /\ pc = "load"
  /\ \E ra \in {Record(1, a)}, rb \in {Record(2, b)} :
       op' = [name |-> "compare",
              st |-> IF NkOrdRaises(Nk(ra), Nk(rb)) THEN "TypeError"
                     ELSE "ok",
              arg |-> <<ra, rb>>,
              out |-> IF NkOrdRaises(Nk(ra), Nk(rb)) THEN Null
                      ELSE IF NkLe(Nk(ra), Nk(rb)) THEN 1 ELSE 2,
              before |-> <<>>]
  /\ UNCHANGED <<mem, ll, stk, q, pc, tree, stored, finds, hist, frames>>

NextCompare == \E a \in CompareKeys, b \in CompareKeys : NormalizedCompare(a, b)

SpecCompare == Init /\ [][NextCompare]_vars

\* C21: the comparison of the normalized keys of any two raw keys is defined:
\* it never raises
C21_ComparisonDefined == op.name = "compare" => op.st = "ok"

\* ------------------------------------------------------------ cached heights
\* C27: after any sequence of insertions, every node's cached height is one
\* more than the larger of its children's cached heights (0 for a missing
\* child), and it is the true height of the node's subtree.
C27_CachedHeights ==
  \A n \in TreeNodes(mem, tree.root) :
    /\ mem.avl[n].height =
         1 + Max(height(mem, mem.avl[n].left), height(mem, mem.avl[n].right))
    /\ mem.avl[n].height = TrueHeight(mem, n)

\* a double rotation below the root has just rearranged three nodes, and
\* the tree has height 3
C27_Witness ==
  /\ op.name = "insert" /\ op.st = "ok"
  /\ op.out \cap {"LR", "RL"} # {}
  /\ Cardinality(TreeNodes(mem, tree.root)) = 6
  /\ mem.avl[tree.root].height = 3
  /\ \E n \in TreeNodes(mem, tree.root) \ {tree.root} :
       mem.avl[n].left # Null /\ mem.avl[n].right # Null
       /\ op.arg.key = mem.avl[n].key

\* C28: an insert of a record whose key is already in the tree changes no
\* node's key, children or height and rotates nothing: the root stays, the
\* node of that key gets the record at the end of its group, every other
\* group is as it was, and the counter grows by one.
C28_DuplicateFrame ==
  [][(/\ op'.name = "insert" /\ op'.st = "ok"
      /\ \E n \in TreeNodes(mem, tree.root) : PyEq(mem.avl[n].key, op'.arg.key))
     => LET n == CHOOSE k \in TreeNodes(mem, tree.root) :
                   PyEq(mem.avl[k].key, op'.arg.key)
        IN /\ mem'.avl = mem.avl
           /\ tree'.root = tree.root
           /\ op'.out = {}
           /\ tree'.count = tree.count + 1
           /\ Items(mem', mem.avl[n].records) =
                Append(Items(mem, mem.avl[n].records), op'.arg)
           /\ \A k \in TreeNodes(mem, tree.root) \ {n} :
                Items(mem', mem.avl[k].records) = Items(mem, mem.avl[k].records)
    ]_vars

\* a second record has just joined the group of a leaf at depth 2 of a tree
\* of five nodes
C28_Witness ==
  /\ op.name = "insert" /\ op.st = "ok" /\ op.out = {}
  /\ Cardinality(TreeNodes(mem, tree.root)) = 5
  /\ tree.count = 6
  /\ \E n \in TreeNodes(mem, tree.root) :
       /\ mem.avl[n].key = op.arg.key
       /\ mem.avl[n].left = Null /\ mem.avl[n].right = Null
       /\ Len(PathTo(mem, tree.root, n)) = 2
       /\ Len(Items(mem, mem.avl[n].records)) = 2
       /\ Items(mem, mem.avl[n].records)[2] = op.arg

\* ------------------------------------------------------------- sorting twice
\* interactive_menu options 2 and 3, taken after an earlier sort was adopted:
\* ll = merge_sort_linkedlist(ll, keyfn), ll = quick_sort_linkedlist(ll, keyfn)
SortAgain(name, res) ==
  /\ pc = "adopted"
  /\ op.name \in {"merge_sort", "quick_sort"}
  /\ \E r \in {res} :
       /\ mem' = r.m
       /\ ll' = IF r.st = "ok" THEN r.l ELSE ll
       /\ op' = [name |-> name, st |-> r.st, arg |-> ll, out |-> r.l,
                 before |-> Items(mem, ll)]
       /\ pc' = IF r.st = "ok" THEN "resorted" ELSE "crashed"
  /\ UNCHANGED <<stk, q, tree, stored, finds, hist, frames>>

MergeSortAgain == SortAgain("merge_sort_again", merge_sort_linkedlist(mem, ll))

QuickSortAgain == SortAgain("quick_sort_again", quick_sort_linkedlist(mem, ll))

\* test_sort.py: ms = merge_sort_linkedlist(ll, ...) and then
\* qs = quick_sort_linkedlist(ll, ...) on the same list; the script ends at
\* the first exception
SortBoth ==
  /\ pc = "load"
  /\ \E ms \in {merge_sort_linkedlist(mem, ll)} :
       IF ms.st # "ok"
         THEN /\ mem' = ms.m
              /\ op' = [name |-> "sort_both", st |-> ms.st, arg |-> ll,
                        out |-> [merge |-> Null, quick |-> Null],
                        before |-> Items(mem, ll)]
              /\ pc' = "crashed"
         ELSE \E qs \in {quick_sort_linkedlist(ms.m, ll)} :
                /\ mem' = qs.m
                /\ op' = [name |-> "sort_both", st |-> qs.st, arg |-> ll,
                          out |-> [merge |-> ms.l, quick |-> qs.l],
                          before |-> Items(mem, ll)]
                /\ pc' = IF qs.st = "ok" THEN "compared" ELSE "crashed"
  /\ UNCHANGED <<ll, stk, q, tree, stored, finds, hist, frames>>

\* Keys of every class: a number, a boolean, a date, two strings, None
TwiceKeys == SortKeys \ {StrKey(<<97, 98>>), RaiseKey}

NextSortTwice ==
  \/ \E k \in TwiceKeys : ListAppend(k)
  \/ MergeSort
  \/ QuickSort
  \/ Adopt
  \/ MergeSortAgain
  \/ QuickSortAgain
  \/ SortBoth

SpecSortTwice == Init /\ [][NextSortTwice]_vars

FieldRecord(i, row) ==
  [id |-> i, key |-> IntKey(row.c), country |-> StrKey(row.f),
   subscription_date |-> row.d]

\* getattr(r, field_name, None)
getattr(r, field_name) ==
  IF field_name = "country" THEN r.country
  ELSE IF field_name = "subscription_date" THEN r.subscription_date
  ELSE NoneKey

\* str(v): a string is itself, a date its ISO text 2020-01-0d, None "None"
Str(v) ==
  IF v.t = "str" THEN v.v
  ELSE IF v.t = "date"
    THEN <<50, 48, 50, 48, 45, 48, 49, 45, 48, 48 + v.v[1]>>
  ELSE <<78, 111, 110, 101>>

\* bool(v): None and the empty string are false, a date is true
Truthy(v) == v.t = "date" \/ (v.t = "str" /\ v.v # <<>>)

\* What a search looks for: a field equal to a value, or a date in a range
FieldTest(field_name, value) ==
  [kind |-> "field", name |-> field_name, value |-> value,
   lo |-> NoneKey, hi |-> NoneKey]

RangeTest(start_date, end_date) ==
  [kind |-> "range", name |-> "subscription_date", value |-> NoneKey,
   lo |-> start_date, hi |-> end_date]

\* search_by_field_in_tree.pred: v is None excludes, then the texts compare
pred(r, field_name, value) ==
  LET v == getattr(r, field_name)
  IN IF v.t = "none" THEN FALSE
     ELSE Lower(Str(v)) = Lower(Str(value))

\* search_by_field_in_stack / _in_queue: if v and str(v).lower() == ...
FieldMatches(r, field_name, value) ==
  LET v == getattr(r, field_name)
  IN Truthy(v) /\ Lower(Str(v)) = Lower(Str(value))

\* search_by_date_range.check
check(r, start_date, end_date) ==
  IF ~Truthy(r.subscription_date) THEN FALSE
  ELSE /\ ~PyLt(r.subscription_date, start_date)
       /\ ~PyLt(end_date, r.subscription_date)

TreeTest(test, r) ==
  IF test.kind = "field" THEN pred(r, test.name, test.value)
  ELSE check(r, test.lo, test.hi)

ScanTest(test, r) ==
  IF test.kind = "field" THEN FieldMatches(r, test.name, test.value)
  ELSE check(r, test.lo, test.hi)

\* for r in tree.find_by_predicate(...): out.append(r)
TreeSearch(m, t, test) ==
  LET all == inorder(m, t.root)
      p == [hit |-> {all[i].id : i \in {j \in 1..Len(all) : TreeTest(test, all[j])}},
            bad |-> {}]
      out == NewListId(m)
  IN [m |-> AppendAll(NewList(m), out, find_by_predicate(m, t.root, p)),
      l |-> out]

search_by_field_in_tree(m, t, field_name, value) ==
  TreeSearch(m, t, FieldTest(field_name, value))

\* one turn of the first loop over a Stack: pop, keep in temp_stack, test
StackScanStep(m, s, temp, out, test) ==
  LET p == pop(m, s)
      m1 == push(p.m, temp, p.v)
  IN IF ScanTest(test, p.v) THEN append(m1, out, p.v) ELSE m1

\* a restore that puts the record under the stack instead of on top
StackRestoreStep_under(m, s, temp) ==
  LET p == pop(m, temp) IN append(p.m, s, p.v)

\* one turn of the second loop: stk.push(temp_stack.pop())
StackRestoreStep(m, s, temp) ==
  LET p == pop(m, temp) IN push(p.m, s, p.v)

RECURSIVE StackScanLoop(_, _, _, _, _)
StackScanLoop(m, s, temp, out, test) ==
  IF is_empty(m, s) THEN m
  ELSE StackScanLoop(StackScanStep(m, s, temp, out, test), s, temp, out, test)

RECURSIVE StackRestoreLoop(_, _, _)
StackRestoreLoop(m, s, temp) ==
  IF is_empty(m, temp) THEN m
  ELSE StackRestoreLoop(StackRestoreStep(m, s, temp), s, temp)

\* temp_stack = Stack(); out = LinkedList(); scan; restore; return out
StackSearch(m, s, test) ==
  LET temp == NewListId(m)
      out == temp + 1
      m1 == StackScanLoop(NewList(NewList(m)), s, temp, out, test)
  IN [m |-> StackRestoreLoop(m1, s, temp), l |-> out]

search_by_field_in_stack(m, s, field_name, value) ==
  StackSearch(m, s, FieldTest(field_name, value))

\* one turn of the first loop over a Queue: dequeue, keep in temp_list, test
QueueScanStep(m, s, temp, out, test) ==
  LET p == dequeue(m, s)
      m1 == append(p.m, temp, p.v)
  IN IF ScanTest(test, p.v) THEN append(m1, out, p.v) ELSE m1

\* a restore that puts the record at the front of the queue
QueueRestoreStep_atFront(m, s, cur) == push(m, s, m.nodes[cur].data)

\* one turn of for rec in temp_list: q.enqueue(rec)
QueueRestoreStep(m, s, cur) == enqueue(m, s, m.nodes[cur].data)

RECURSIVE QueueScanLoop(_, _, _, _, _)
QueueScanLoop(m, s, temp, out, test) ==
  IF is_empty(m, s) THEN m
  ELSE QueueScanLoop(QueueScanStep(m, s, temp, out, test), s, temp, out, test)

RECURSIVE QueueRestoreLoop(_, _, _)
QueueRestoreLoop(m, s, cur) ==
  IF cur = Null THEN m
  ELSE QueueRestoreLoop(QueueRestoreStep(m, s, cur), s, m.nodes[cur].next)

QueueSearch(m, s, test) ==
  LET temp == NewListId(m)
      out == temp + 1
      m1 == QueueScanLoop(NewList(NewList(m)), s, temp, out, test)
  IN [m |-> QueueRestoreLoop(m1, s, m1.lists[temp].head), l |-> out]

search_by_field_in_queue(m, s, field_name, value) ==
  QueueSearch(m, s, FieldTest(field_name, value))

\* search_by_date_range on the tree, the Stack and the Queue
search_by_date_range(m, kind, target, start_date, end_date) ==
  IF kind = "tree" THEN TreeSearch(m, target, RangeTest(start_date, end_date))
  ELSE IF kind = "stack"
    THEN StackSearch(m, target, RangeTest(start_date, end_date))
  ELSE QueueSearch(m, target, RangeTest(start_date, end_date))

\* Rows of the file: customer id, country, subscription date
SearchRows ==
  {[c |-> 2, f |-> <<85, 83>>, d |-> DateKey(1)],
   [c |-> 1, f |-> <<117, 115>>, d |-> NoneKey],
   [c |-> 3, f |-> <<>>, d |-> DateKey(2)],
   [c |-> 2, f |-> <<77, 88>>, d |-> DateKey(3)]}

\* What the user types: a field of option 6 and a value, stripped
FieldNames == {"country", "subscription_date", "nickname"}

SearchValues ==
  {StrKey(<<>>), StrKey(<<117, 83>>), StrKey(<<109, 120>>),
   StrKey(<<50, 48, 50, 48, 45, 48, 49, 45, 48, 50>>)}

SearchDates == {DateKey(1), DateKey(2), DateKey(3)}

\* load_csv: one row into the list, the stack, the queue and the tree
LoadRecord(row) ==
  /\ pc = "load"
  /\ size(mem, ll) < MaxLoaded
  /\ \E rec \in {FieldRecord(size(mem, ll) + 1, row)} :
       \E r \in {insert(enqueue(push(append(mem, ll, rec), stk, rec), q, rec),
                        tree, rec)} :
         /\ mem' = r.m
         /\ tree' = r.t
         /\ stored' = Append(stored, rec)
         /\ hist' = [stk |-> Append(hist.stk, rec), q |-> Append(hist.q, rec)]
         /\ op' = [name |-> "load", st |-> r.st, arg |-> rec, out |-> r.rot,
                   before |-> stored]
  /\ UNCHANGED <<ll, stk, q, pc, finds, frames>>

\* interactive_menu option 6, choices 1-4: the same search in the tree, the
\* stack and the queue
SearchByField(field_name, value) ==
  /\ pc = "load"
  /\ \E rt \in {search_by_field_in_tree(mem, tree, field_name, value)} :
       \E rs \in {search_by_field_in_stack(rt.m, stk, field_name, value)} :
         \E rq \in {search_by_field_in_queue(rs.m, q, field_name, value)} :
           /\ mem' = rq.m
           /\ op' = [name |-> "search_by_field", st |-> "ok",
                     arg |-> FieldTest(field_name, value),
                     out |-> [tree |-> rt.l, stack |-> rs.l, queue |-> rq.l],
                     before |-> [stk |-> Items(mem, stk), q |-> Items(mem, q)]]
  /\ pc' = "searched"
  /\ UNCHANGED <<ll, stk, q, tree, stored, finds, hist, frames>>

\* interactive_menu option 6, choice 5: the three date range searches
SearchByDateRange(d1, d2) ==
  /\ pc = "load"
  /\ \E rt \in {search_by_date_range(mem, "tree", tree, d1, d2)} :
       \E rs \in {search_by_date_range(rt.m, "stack", stk, d1, d2)} :
         \E rq \in {search_by_date_range(rs.m, "queue", q, d1, d2)} :
           /\ mem' = rq.m
           /\ op' = [name |-> "search_by_date_range", st |-> "ok",
                     arg |-> RangeTest(d1, d2),
                     out |-> [tree |-> rt.l, stack |-> rs.l, queue |-> rq.l],
                     before |-> [stk |-> Items(mem, stk), q |-> Items(mem, q)]]
  /\ pc' = "searched"
  /\ UNCHANGED <<ll, stk, q, tree, stored, finds, hist, frames>>

NextSearch ==
  \/ \E row \in SearchRows : LoadRecord(row)
  \/ \E f \in FieldNames, v \in SearchValues : SearchByField(f, v)
  \/ \E d1 \in SearchDates, d2 \in SearchDates : SearchByDateRange(d1, d2)

SpecSearch == Init /\ [][NextSearch]_vars

Searched == op.name \in {"search_by_field", "search_by_date_range"}

\* C23: when the stack and queue searches return, the Stack and the Queue
\* hold the records they held before the call, in the same order and with
\* the same size, however many records matched.
C23_Restored ==
  Searched =>
    /\ Items(mem, stk) = op.before.stk
    /\ Items(mem, q) = op.before.q
    /\ size(mem, stk) = Len(op.before.stk)
    /\ size(mem, q) = Len(op.before.q)
    /\ WellFormed(mem, stk) /\ WellFormed(mem, q)

\* a search of four loaded records has returned with one or two matches
C23_Witness ==
  /\ Searched
  /\ Len(op.before.stk) = 4 /\ Len(op.before.q) = 4
  /\ size(mem, op.out.stack) \in {1, 2}
  /\ size(mem, op.out.queue) \in {1, 2}

\* C25: the field search returns the same records, as a multiset, from the
\* tree, from the stack and from the queue, for every field and every
\* search value, the empty string included.
C25_SearchesAgree ==
  op.name = "search_by_field" =>
    /\ IsPerm(Items(mem, op.out.tree), Items(mem, op.out.stack))
    /\ IsPerm(Items(mem, op.out.stack), Items(mem, op.out.queue))

\* ------------------------------------------- a search that is not left alone
\* The stack and queue searches taken one loop turn at a time, with one
\* operation of another caller on the same structure between two turns.
\* The frame of the running search holds its locals (temp, out, the cursor
\* of the for loop) and, for the record, the content at the call (before)
\* and the other caller's operation (other).
NoOther == [name |-> "none", v |-> NoneKey, at |-> "none"]

\* call: temp_stack = Stack() / temp_list = LinkedList(); out = LinkedList()
ScanCall(fn, s, test) ==
  /\ pc = "load"
  /\ frames = <<>>
  /\ mem' = NewList(NewList(mem))
  /\ frames' = <<[fn |-> fn, at |-> "scan", s |-> s, temp |-> NewListId(mem),
                  out |-> NewListId(mem) + 1, test |-> test, cur |-> Null,
                  restored |-> 0, before |-> Items(mem, s),
                  other |-> NoOther]>>
  /\ pc' = "scanning"
  /\ op' = [name |-> fn, st |-> "running", arg |-> NoOther, out |-> Null,
            before |-> Items(mem, s)]
  /\ UNCHANGED <<ll, stk, q, tree, stored, finds, hist>>

\* one turn of the first loop, or its exit when the structure is empty
ScanTurn ==
  /\ pc = "scanning"
  /\ \E f \in {frames[1]} :
       /\ f.at = "scan"
       /\ IF is_empty(mem, f.s)
            THEN /\ frames' = <<[f EXCEPT !.at = "restore",
                                          !.cur = mem.lists[f.temp].head]>>
                 /\ mem' = mem
            ELSE /\ mem' = IF f.fn = "search_by_field_in_stack"
                             THEN StackScanStep(mem, f.s, f.temp, f.out, f.test)
                             ELSE QueueScanStep(mem, f.s, f.temp, f.out, f.test)
                 /\ frames' = frames
  /\ UNCHANGED <<ll, stk, q, pc, tree, stored, finds, hist, op>>

\* one turn of the second loop
RestoreTurn ==
  /\ pc = "scanning"
  /\ \E f \in {frames[1]} :
       /\ f.at = "restore"
       /\ IF f.fn = "search_by_field_in_stack"
            THEN /\ ~is_empty(mem, f.temp)
                 /\ mem' = StackRestoreStep(mem, f.s, f.temp)
                 /\ frames' = <<[f EXCEPT !.restored = @ + 1]>>
            ELSE /\ f.cur # Null
                 /\ mem' = QueueRestoreStep(mem, f.s, f.cur)
                 /\ frames' = <<[f EXCEPT !.restored = @ + 1,
                                          !.cur = mem.nodes[f.cur].next]>>
  /\ UNCHANGED <<ll, stk, q, pc, tree, stored, finds, hist, op>>

\* return out
ScanReturn ==
  /\ pc = "scanning"
  /\ \E f \in {frames[1]} :
       /\ f.at = "restore"
       /\ IF f.fn = "search_by_field_in_stack" THEN is_empty(mem, f.temp)
          ELSE f.cur = Null
       /\ op' = [name |-> f.fn, st |-> "ok", arg |-> f.other, out |-> f.out,
                 before |-> f.before]
  /\ frames' = <<>>
  /\ pc' = "searched"
  /\ UNCHANGED <<mem, ll, stk, q, tree, stored, finds, hist>>

\* another caller's stk.push(rec) / q.enqueue(rec) between two turns
OtherAdd ==
  /\ pc = "scanning"
  /\ \E f \in {frames[1]}, rec \in {FieldRecord(0, [c |-> 0, f |-> <<>>, d |-> NoneKey])} :
       /\ f.other = NoOther
       /\ mem' = IF f.fn = "search_by_field_in_stack" THEN push(mem, f.s, rec)
                 ELSE enqueue(mem, f.s, rec)
       /\ frames' = <<[f EXCEPT !.other = [name |-> "add", v |-> rec,
                                           at |-> f.at]]>>
  /\ UNCHANGED <<ll, stk, q, pc, tree, stored, finds, hist, op>>

\* another caller's stk.pop() / q.dequeue() between two turns
OtherRemove ==
  /\ pc = "scanning"
  /\ \E f \in {frames[1]} :
       /\ f.other = NoOther
       /\ \E p \in {IF f.fn = "search_by_field_in_stack" THEN pop(mem, f.s)
                    ELSE dequeue(mem, f.s)} :
            /\ mem' = p.m
            /\ frames' = <<[f EXCEPT !.other = [name |-> "remove", v |-> p.v,
                                                at |-> f.at]]>>
  /\ UNCHANGED <<ll, stk, q, pc, tree, stored, finds, hist, op>>

SharedRows == {[c |-> 1, f |-> <<117, 115>>, d |-> NoneKey],
               [c |-> 2, f |-> <<>>, d |-> DateKey(1)]}

NextShared ==
  \/ \E row \in SharedRows : LoadRecord(row)
  \/ ScanCall("search_by_field_in_stack", stk,
              FieldTest("country", StrKey(<<85, 83>>)))
  \/ ScanCall("search_by_field_in_queue", q,
              FieldTest("country", StrKey(<<85, 83>>)))
  \/ ScanTurn
  \/ RestoreTurn
  \/ ScanReturn
  \/ OtherAdd
  \/ OtherRemove

SpecShared == Init /\ [][NextShared]_vars

ScanNames == {"search_by_field_in_stack", "search_by_field_in_queue"}

\* C24: between the two loops of a search, before anything is put back and
\* unless the other caller has just added a record, the structure is empty:
\* every record it held at the call is missing.  A search left alone
\* returns with the structure as it was; a search during which another
\* caller added a record or removed one returns with a different content.
C24_NotAtomic ==
  /\ (pc = "scanning" /\ frames[1].at = "restore" /\ frames[1].restored = 0
      /\ frames[1].other.at # "restore")
       => /\ is_empty(mem, frames[1].s)
          /\ (frames[1].other = NoOther
                => IsPerm(Items(mem, frames[1].temp), frames[1].before))
  /\ (op.name \in ScanNames /\ op.st = "ok")
       => LET s == IF op.name = "search_by_field_in_stack" THEN stk ELSE q
          IN /\ op.arg = NoOther => Items(mem, s) = op.before
             /\ (op.arg.name = "add"
                 \/ (op.arg.name = "remove" /\ op.arg.v # NoneKey))
                  => Items(mem, s) # op.before

\* a search of three records has returned during whose second loop another
\* caller removed one of the records already put back
C24_Witness ==
  /\ op.name \in ScanNames /\ op.st = "ok"
  /\ Len(op.before) = 3
  /\ op.arg.name = "remove" /\ op.arg.at = "restore"
  /\ \E i \in 1..3 : op.before[i] = op.arg.v
  /\ LET s == IF op.name = "search_by_field_in_stack" THEN stk ELSE q
     IN size(mem, s) = 2

\* ------------------------------------------------- the sorts, call by call
\* The recursion of the three sorts as a stack of frames, the running call
\* last.  A step runs the top frame from its call, or from the return of the
\* call it made, up to its next recursive call or its own return.  A frame
\* holds the call's argument (l, or recs and depth for _sort), the place it
\* waits at, its locals a, b, c (left and right; less, equal, greater; lt,
\* eq, gt), the first sorted part ls and the value ret its callee returned.
Frame(fn, l, recs, depth) ==
  [fn |-> fn, at |-> "call", l |-> l, recs |-> recs, depth |-> depth,
   a |-> Null, b |-> Null, c |-> Null, ls |-> Null, ret |-> Null]

Running(m, stack) == [st |-> "running", m |-> m, stack |-> stack, ret |-> Null]

Raised(e, m) == [st |-> e, m |-> m, stack |-> <<>>, ret |-> Null]

\* the top frame replaced by f, then a call with the frame g
Call(m, stack, f, g) == Running(m, Append(Front(stack) \o <<f>>, g))

\* return val: the frame is popped and its caller, if any, receives val
Return(m, stack, val) ==
  IF Len(stack) = 1 THEN [st |-> "ok", m |-> m, stack |-> <<>>, ret |-> val]
  ELSE LET caller == stack[Len(stack) - 1]
       IN Running(m, Front(Front(stack)) \o <<[caller EXCEPT !.ret = val]>>)

\* merge_sort_linkedlist
MergeSortStep(m, stack) ==
  LET f == stack[Len(stack)]
      h == m.lists[f.l].head
  IN IF f.at = "call"
       THEN IF h = Null \/ m.nodes[h].next = Null
              THEN Return(CopyLoop(NewList(m), h, Null, NewListId(m)), stack,
                          NewListId(m))
              ELSE LET s == split_linkedlist(m, f.l)
                   IN Call(s.m, stack,
                           [f EXCEPT !.at = "left", !.a = s.left, !.b = s.right],
                           Frame("merge_sort", s.left, <<>>, 0))
     ELSE IF f.at = "left"
       THEN Call(m, stack, [f EXCEPT !.at = "right", !.ls = f.ret],
                 Frame("merge_sort", f.b, <<>>, 0))
     ELSE LET r == merge_sorted(m, f.ls, f.ret)
          IN IF r.st # "ok" THEN Raised(r.st, r.m) ELSE Return(r.m, stack, r.l)

\* a pivot taken from the end of the list
Pivot_last(m, l) == m.nodes[m.lists[l].tail].data

\* pivot = ll.head.data
Pivot(m, l) == m.nodes[m.lists[l].head].data

\* quick_sort_linkedlist from the greater bucket on, the less bucket done
QuickAfterLess(m, stack, f) ==
  IF m.lists[f.c].head # Null
    THEN Call(m, stack, [f EXCEPT !.at = "greater"],
              Frame("quick_sort", f.c, <<>>, 0))
    ELSE LET r == Concat3(m, f.ls, f.b, f.c) IN Return(r.m, stack, r.l)

\* quick_sort_linkedlist
QuickSortStep(m, stack) ==
  LET f == stack[Len(stack)]
      h == m.lists[f.l].head
  IN IF f.at = "call"
       THEN IF h = Null \/ m.nodes[h].next = Null
              THEN Return(CopyLoop(NewList(m), h, Null, NewListId(m)), stack,
                          NewListId(m))
              ELSE LET less == NewListId(m)
                       p == PartitionLoop(NewList(NewList(NewList(m))), h,
                                          normalize_key(Pivot(m, f.l)),
                                          less, less + 1, less + 2)
                       g == [f EXCEPT !.a = less, !.b = less + 1,
                                      !.c = less + 2]
                   IN IF p.st # "ok" THEN Raised(p.st, p.m)
                      ELSE IF p.m.lists[less].head # Null
                        THEN Call(p.m, stack, [g EXCEPT !.at = "less"],
                                  Frame("quick_sort", less, <<>>, 0))
                      ELSE QuickAfterLess(p.m, stack, [g EXCEPT !.ls = less])
     ELSE IF f.at = "less"
       THEN QuickAfterLess(m, stack, [f EXCEPT !.ls = f.ret])
     ELSE LET r == Concat3(m, f.ls, f.b, f.ret) IN Return(r.m, stack, r.l)

\* three_way_radix_quicksort: the list copied to records, _sort, the result
RadixQuickSortStep(m, stack) ==
  LET f == stack[Len(stack)]
      h == m.lists[f.l].head
  IN IF f.at = "call"
       THEN IF h = Null \/ m.nodes[h].next = Null
              THEN Raised("AttributeError", m)
              ELSE Call(m, stack, [f EXCEPT !.at = "sorted"],
                        Frame("_sort", Null, Items(m, f.l), 0))
     ELSE Return(AppendAll(NewList(m), NewListId(m), f.ret), stack,
                 NewListId(m))

\* three_way_radix_quicksort._sort
RadixSortStep(m, stack) ==
  LET f == stack[Len(stack)]
      recs == f.recs
  IN IF f.at = "call"
       THEN IF Len(recs) <= 1 THEN Return(m, stack, recs)
            ELSE IF \E i \in 1..Len(recs) : RadixKeyFails(recs[i])
              THEN LET i == CHOOSE j \in 1..Len(recs) :
                              /\ RadixKeyFails(recs[j])
                              /\ \A k \in 1..(j - 1) : ~RadixKeyFails(recs[k])
                   IN Raised(RadixError(recs[i]), m)
            ELSE LET char_pivot == CharAt(keyfn(recs[1]).v, f.depth)
                     ch(r) == CharAt(keyfn(r).v, f.depth)
                     g == [f EXCEPT
                             !.a = SelectSeq(recs, LAMBDA r : ch(r) < char_pivot),
                             !.b = SelectSeq(recs, LAMBDA r : ch(r) = char_pivot),
                             !.c = SelectSeq(recs, LAMBDA r : ch(r) > char_pivot)]
                 IN IF g.b # <<>> /\ char_pivot # NoChar
                      THEN Call(m, stack, [g EXCEPT !.at = "eq"],
                                Frame("_sort", Null, g.b, f.depth + 1))
                      ELSE Call(m, stack, [g EXCEPT !.at = "lt"],
                                Frame("_sort", Null, g.a, f.depth))
     ELSE IF f.at = "eq"
       THEN Call(m, stack, [f EXCEPT !.at = "lt", !.b = f.ret],
                 Frame("_sort", Null, f.a, f.depth))
     ELSE IF f.at = "lt"
       THEN Call(m, stack, [f EXCEPT !.at = "gt", !.ls = f.ret],
                 Frame("_sort", Null, f.c, f.depth))
     ELSE Return(m, stack, f.ls \o f.b \o f.ret)

CallStep(m, stack) ==
  LET fn == stack[Len(stack)].fn
  IN IF fn = "merge_sort" THEN MergeSortStep(m, stack)
     ELSE IF fn = "quick_sort" THEN QuickSortStep(m, stack)
     ELSE IF fn = "radix_sort" THEN RadixQuickSortStep(m, stack)
     ELSE RadixSortStep(m, stack)

\* String keys: a prefix pair, two keys equal but for the case, and enough
\* distinct keys for an ascending list of every length
CallKeys ==
  {StrKey(<<97>>), StrKey(<<97, 98>>), StrKey(<<98>>), StrKey(<<99>>),
   StrKey(<<100>>)}

\* interactive_menu: a sort of ll is called
SortStart(fn) ==
  /\ pc = "load"
  /\ frames' = <<Frame(fn, ll, <<>>, 0)>>
  /\ pc' = "running"
  /\ op' = [name |-> "call", st |-> "running", arg |-> [fn |-> fn, l |-> ll],
            out |-> [l |-> Null, depth |-> 0], before |-> Items(mem, ll)]
  /\ UNCHANGED <<mem, ll, stk, q, tree, stored, finds, hist>>

\* the running call goes on to its next call or return; depth is the
\* deepest nesting of calls below the first one so far
SortStep ==
  /\ pc = "running"
  /\ \E r \in {CallStep(mem, frames)} :
       /\ mem' = r.m
       /\ frames' = r.stack
       /\ pc' = IF r.st = "running" THEN "running"
                ELSE IF r.st = "ok" THEN "sorted" ELSE "crashed"
       /\ op' = [op EXCEPT !.st = r.st,
                           !.out = [l |-> r.ret,
                                    depth |-> Max(@.depth, Len(r.stack) - 1)]]
  /\ UNCHANGED <<ll, stk, q, tree, stored, finds, hist>>

NextCalls ==
  \/ \E k \in CallKeys : ListAppend(k)
  \/ \E fn \in {"merge_sort", "quick_sort", "radix_sort"} : SortStart(fn)
  \/ SortStep

SpecCalls == Init /\ [][NextCalls]_vars

\* The program is one thread that runs a call to its end: a step of the
\* running sort that can be taken is taken.  This is WF_vars(SortStep)
\* written out, ENABLED <<SortStep>>_vars being pc = "running".
SpecCallsFair ==
  SpecCalls /\ ([]<>(pc # "running") \/ []<><<SortStep>>_vars)


\* The call has ended, by a return or an exception
Ended == op.name = "call" /\ op.st # "running"

\* merge sort: a split list of n >= 2 records has a left half of ceil(n/2)
\* and a right half of floor(n/2) records
SplitHalves ==
  \A i \in 1..Len(frames) :
    LET f == frames[i] IN
    (f.fn = "merge_sort" /\ f.at # "call") =>
      /\ size(mem, f.l) >= 2
      /\ size(mem, f.a) = (size(mem, f.l) + 1) \div 2
      /\ size(mem, f.b) = size(mem, f.l) \div 2

\* quick sort: the pivot is in the equal bucket, and the buckets it recurses
\* on hold no record with the pivot's key
BucketsExcludePivot ==
  \A i \in 1..Len(frames) :
    LET f == frames[i] IN
    (f.fn = "quick_sort" /\ f.at # "call") =>
      /\ size(mem, f.b) >= 1
      /\ size(mem, f.a) < size(mem, f.l) /\ size(mem, f.c) < size(mem, f.l)
      /\ \A r \in ListNodes(mem, f.a) \cup ListNodes(mem, f.c) :
           ~NkEq(Nk(mem.nodes[r].data), Nk(Pivot(mem, f.l)))

\* radix quicksort: _sort calls itself on the equal bucket one character
\* further and only when the pivot has a character there, and on lt and gt
\* at the same depth with fewer records
RadixDescends ==
  \A i \in 2..Len(frames) :
    LET p == frames[i - 1]
        c == frames[i]
    IN (p.fn = "_sort" /\ c.fn = "_sort") =>
         IF p.at = "eq"
           THEN /\ c.depth = p.depth + 1
                /\ CharAt(keyfn(p.recs[1]).v, p.depth) # NoChar
                /\ c.depth <= Len(keyfn(p.recs[1]).v)
           ELSE /\ c.depth = p.depth
                /\ Len(c.recs) < Len(p.recs)

\* C29: every sort call returns, on every list: a call that has ended has
\* returned a list, and on the way merge sort splits into halves of
\* ceil(n/2) and floor(n/2) records, quick sort recurses on buckets without
\* the pivot, and radix quicksort recurses on the equal bucket only one
\* character further and while the pivot has a character there.
C29_EveryCallReturns ==
  /\ Ended => op.st = "ok"
  /\ SplitHalves
  /\ BucketsExcludePivot
  /\ RadixDescends

\* a call that has started ends, by a return or an exception
CallsEnd == (pc = "running") ~> (pc \in {"sorted", "crashed"})

Ascending(seq) ==
  \A i \in 1..(Len(seq) - 1) : NkLt(Nk(seq[i]), Nk(seq[i + 1]))

\* C30: quick sort takes the first record of the list as pivot; on a list
\* of n records in strictly ascending key order every partition has an empty
\* less bucket and a greater bucket of all the other records, and the calls
\* nest n - 1 deep below the first call.
C30_LinearDepth ==
  /\ \A i \in 1..Len(frames) :
       LET f == frames[i] IN
       (f.fn = "quick_sort" /\ f.at # "call") =>
         Items(mem, f.b)[1] = Items(mem, f.l)[1]
  /\ (op.name = "call" /\ op.arg.fn = "quick_sort" /\ Len(op.before) >= 1
      /\ Ascending(op.before)) =>
       /\ \A i \in 1..Len(frames) :
            LET f == frames[i] IN
            f.at # "call" =>
              /\ size(mem, f.a) = 0
              /\ size(mem, f.c) = size(mem, f.l) - 1
       /\ op.out.depth <= Len(op.before) - 1
       /\ op.st = "ok" => op.out.depth = Len(op.before) - 1

\* a quick sort of four records in ascending order has returned
C30_Witness ==
  /\ op.name = "call" /\ op.arg.fn = "quick_sort" /\ op.st = "ok"
  /\ Len(op.before) = 4 /\ Ascending(op.before)
  /\ op.out.depth = 3
  /\ Items(mem, op.out.l) = op.before

====
